---------------------------- MODULE Spec2Model ----------------------------
(***************************************************************************)
(* A model of the simulation-and-render core of bhumi: the PixelBuffer     *)
(* raster target (src/bhumi/src/pixel_buffer.rs), the two drone physics    *)
(* worlds (src/bhumi/src/physics.rs on rapier3d, and                       *)
(* src/bhumi-web/src/web_physics.rs, the hand-written integrator), the     *)
(* camera (src/bhumi/src/camera.rs), the Renderer                          *)
(* (src/bhumi/src/renderer.rs) and the calls the front ends make on it.    *)
(*                                                                         *)
(* Machine integers are scaled down: a u32 has word_bits bits and an i32   *)
(* is its two's-complement reading, so that wrap-around and overflow       *)
(* happen within TLC's reach.  word_bits is fixed per behaviour: WordBits  *)
(* for the clients of a PixelBuffer, RenderWordBits for a program that     *)
(* renders, FarWordBits for one whose drone is at the end of the grid.     *)
(* The buffer is WIDTH x HEIGHT pixels, scaled down from 320 x 240 but     *)
(* keeping what the code relies on: WIDTH and HEIGHT are positive as i32   *)
(* and WIDTH * HEIGHT fits a u32.                                          *)
(*                                                                         *)
(* Reals (f32) are fixed-point integers; every division truncates toward   *)
(* zero.  The sums of the force accumulators are also computed as the f32  *)
(* they are (f32_add).  Non-finite floats (NaN, infinities) are not        *)
(* modelled.                                                               *)
(***************************************************************************)
EXTENDS Integers, Sequences, FiniteSets, TLC

---------------------------------------------------------------------------
(* Bounds of the model *)

\* Buffer size (320 x 240 in PixelBuffer::new, scaled down).
WIDTH == 4
HEIGHT == 3
\* Bits of a machine word (32 in the code, scaled down).
WordBits == 5
\* PixelBuffer operations per behaviour.
MaxOps == 2
\* Physics calls per behaviour.
MaxCalls == 3
\* Handlers of a front end per behaviour.
MaxFrames == 2

\* Bits of a machine word of a program that renders: its coordinates reach
\* hundreds of buffer widths without overflowing.
RenderWordBits == 12
\* Bits of a machine word of a program whose drone flies to the end of the
\* grid cells an i32 can number.
FarWordBits == 4

---------------------------------------------------------------------------
(* Machine integers *)

VARIABLE word_bits    \* the build: the bits of a machine word

U32Mod == 2 ^ word_bits
U32Max == U32Mod - 1
I32Max == (U32Mod \div 2) - 1
I32Min == -(U32Mod \div 2)

\* `v as i32` of a u32, and `v as u32` of an i32: the same bits.
AsI32(u) == IF u > I32Max THEN u - U32Mod ELSE u
AsU32(i) == i % U32Mod

\* The i32 an operation yields when its true result is n: n itself, or n
\* wrapped (a build without overflow checks).
WrapI32(n) == AsI32(n % U32Mod)
OverflowsI32(n) == n < I32Min \/ n > I32Max
OverflowsU32(n) == n < 0 \/ n > U32Max

\* Iterations of draw_line's loop the model follows before it reports the
\* call as still running: more than any line between two i32 points needs
\* when nothing wraps.
LineFuel == U32Mod

Abs(n) == IF n < 0 THEN -n ELSE n
Max(a, b) == IF a >= b THEN a ELSE b

---------------------------------------------------------------------------
(* Colours: RGBA quads *)

Black == <<0, 0, 0, 255>>
Background == <<20, 20, 30, 255>>
White == <<255, 255, 255, 255>>
Red == <<255, 0, 0, 255>>
\* The colours callers pass in this model.
Palette == {White, Red}

---------------------------------------------------------------------------
VARIABLES
    buffer,           \* the PixelBuffer: [width, height, pixels]
    overflow_checks,  \* the build: TRUE when integer overflow panics (debug)
    status,           \* "running", "panicked", or "spinning" (a call that
                      \* has not returned within LineFuel iterations)
    call,             \* the last PixelBuffer call: [op, ...arguments]
    ret,              \* what that call returned
    before,           \* buffer.pixels as that call found it
    trace,            \* the (x, y) of every set_pixel that call made, in order
    nops              \* calls made so far

pbvars ==
    <<buffer, overflow_checks, word_bits, status, call, ret, before, trace,
      nops>>

VARIABLES
    physics,   \* the PhysicsWorld: [gravity, dt, drone], dt being
               \* integration_parameters.dt and drone the rigid body
    web,       \* the WebPhysicsWorld
    driven,    \* the world this behaviour's client drives
    pcall,     \* the last physics call: [op, ...arguments]
    pbefore,   \* the driven world as that call found it
    used_dt,   \* the time step the last step integrated with
    quiet,     \* every call so far was a step with zero force
    ncalls     \* calls made so far

physvars == <<physics, web, driven, pcall, pbefore, used_dt, quiet, ncalls>>

VARIABLES
    camera,         \* the Camera of the Renderer
    thrust_force,   \* Renderer.thrust_force
    angular_force,  \* Renderer.angular_force
    rcall,          \* the last Renderer or Camera call: [op, ...arguments]
    cbefore,        \* the camera as that call found it
    steps,          \* the physics steps that call made, in order:
                    \* [dt, force, torque] of each
    drawcalls,      \* the calls that call made while drawing, in order:
                    \* [op, ...arguments] of each
    made            \* the Renderer calls the last handler of the front
                    \* end made, in order: "update" or "render" each

rendvars ==
    <<camera, thrust_force, angular_force, rcall, cbefore, steps,
      drawcalls, made>>

None == "None"
Unit == "()"

---------------------------------------------------------------------------
(* PixelBuffer *)

\* PixelBuffer::new
PixelBuffer_new ==
    [width |-> WIDTH, height |-> HEIGHT,
     pixels |-> [i \in 1..(WIDTH * HEIGHT) |-> Black]]

\* PixelBuffer::clear: self.pixels.fill(color)
clear(self, color) ==
    [self EXCEPT !.pixels = [i \in 1..Len(self.pixels) |-> color]]

\* PixelBuffer::set_pixel, with a stride of height instead of width.
set_pixel_stride_height(self, x, y, color) ==
    IF x >= self.width \/ y >= self.height
    THEN [self |-> self, ret |-> FALSE]
    ELSE LET index == y * self.height + x
         IN  IF index < Len(self.pixels)
             THEN [self |-> [self EXCEPT !.pixels[index + 1] = color],
                   ret |-> TRUE]
             ELSE [self |-> self, ret |-> FALSE]

\* PixelBuffer::set_pixel, with `>` for `>=` in the bounds test.
set_pixel_off_by_one(self, x, y, color) ==
    IF x > self.width \/ y > self.height
    THEN [self |-> self, ret |-> FALSE]
    ELSE LET index == y * self.width + x
         IN  IF index < Len(self.pixels)
             THEN [self |-> [self EXCEPT !.pixels[index + 1] = color],
                   ret |-> TRUE]
             ELSE [self |-> self, ret |-> FALSE]

\* PixelBuffer::set_pixel.  pixels is 1-based here: element index + 1.
set_pixel(self, x, y, color) ==
    IF x >= self.width \/ y >= self.height
    THEN [self |-> self, ret |-> FALSE]
    ELSE LET index == y * self.width + x
         IN  IF index < Len(self.pixels)
             THEN [self |-> [self EXCEPT !.pixels[index + 1] = color],
                   ret |-> TRUE]
             ELSE [self |-> self, ret |-> FALSE]

\* PixelBuffer::get_pixel, with x and y exchanged in the index.
get_pixel_transposed(self, x, y) ==
    IF x >= self.width \/ y >= self.height
    THEN None
    ELSE LET index == x * self.width + y
         IN  IF index < Len(self.pixels) THEN self.pixels[index + 1] ELSE None

\* PixelBuffer::get_pixel: None, or the colour (Some(c) is c).
get_pixel(self, x, y) ==
    IF x >= self.width \/ y >= self.height
    THEN None
    ELSE LET index == y * self.width + x
         IN  IF index < Len(self.pixels) THEN self.pixels[index + 1] ELSE None

\* The head of PixelBuffer::draw_line, with err = dx + dy.
line_setup_err_sum(x0, y0, x1, y1) ==
    LET subx == AsI32(x1) - AsI32(x0)
        suby == AsI32(y1) - AsI32(y0)
        absx == Abs(WrapI32(subx))
        absy == Abs(WrapI32(suby))
        dx == WrapI32(absx)
        dy == WrapI32(absy)
        err == dx + dy
    IN  [dx |-> dx, dy |-> dy,
         sx |-> IF x0 < x1 THEN 1 ELSE -1,
         sy |-> IF y0 < y1 THEN 1 ELSE -1,
         err |-> WrapI32(err),
         ovf |-> \/ OverflowsI32(subx) \/ OverflowsI32(suby)
                 \/ OverflowsI32(absx) \/ OverflowsI32(absy)
                 \/ OverflowsI32(err)]

\* The head of PixelBuffer::draw_line: dx, dy, sx, sy and the first err.
\* ovf: one of the i32 operations overflowed (the values are the wrapped
\* ones, which a build without overflow checks goes on with).
line_setup(x0, y0, x1, y1) ==
    LET subx == AsI32(x1) - AsI32(x0)
        suby == AsI32(y1) - AsI32(y0)
        absx == Abs(WrapI32(subx))
        absy == Abs(WrapI32(suby))
        dx == WrapI32(absx)
        dy == WrapI32(absy)
        err == dx - dy
    IN  [dx |-> dx, dy |-> dy,
         sx |-> IF x0 < x1 THEN 1 ELSE -1,
         sy |-> IF y0 < y1 THEN 1 ELSE -1,
         err |-> WrapI32(err),
         ovf |-> \/ OverflowsI32(subx) \/ OverflowsI32(suby)
                 \/ OverflowsI32(absx) \/ OverflowsI32(absy)
                 \/ OverflowsI32(err)]

\* One iteration of the loop of PixelBuffer::draw_line in state
\* st = [self, x, y, err, trace, out]: the set_pixel, the break test, the
\* update of err, x and y.  out becomes "done" at the break and "panic" at
\* an overflow when the build checks for it.
line_step(st, k, checks) ==
    LET x == st.x
        y == st.y
        err == st.err
        drawn == set_pixel(st.self, AsU32(x), AsU32(y), k.color).self
        seen == Append(st.trace, <<AsU32(x), AsU32(y)>>)
        e2t == 2 * err
        e2 == WrapI32(e2t)
        negdy == WrapI32(-k.dy)
        stepx == e2 > negdy
        err1t == IF stepx THEN err - k.dy ELSE err
        xt == IF stepx THEN x + k.sx ELSE x
        err1 == WrapI32(err1t)
        stepy == e2 < k.dx
        err2t == IF stepy THEN err1 + k.dx ELSE err1
        yt == IF stepy THEN y + k.sy ELSE y
        ovf == \/ OverflowsI32(e2t) \/ OverflowsI32(-k.dy)
               \/ OverflowsI32(err1t) \/ OverflowsI32(xt)
               \/ OverflowsI32(err2t) \/ OverflowsI32(yt)
    IN  IF x = AsI32(k.x1) /\ y = AsI32(k.y1)
        THEN [st EXCEPT !.self = drawn, !.trace = seen, !.out = "done"]
        ELSE IF checks /\ ovf
        THEN [st EXCEPT !.self = drawn, !.trace = seen, !.out = "panic"]
        ELSE [self |-> drawn, x |-> WrapI32(xt), y |-> WrapI32(yt),
              err |-> WrapI32(err2t), trace |-> seen, out |-> "loop"]

\* The loop of PixelBuffer::draw_line, at most fuel iterations of it: the
\* first half of them, then the rest.  out is still "loop" when the loop
\* is still running after them.
RECURSIVE line_loop(_, _, _, _)
line_loop(st, k, checks, fuel) ==
    IF st.out # "loop" \/ fuel = 0 THEN st
    ELSE IF fuel = 1 THEN line_step(st, k, checks)
    ELSE CHOOSE r \in {line_loop(half, k, checks, fuel - (fuel \div 2)) :
                          half \in {line_loop(st, k, checks, fuel \div 2)}} :
                   TRUE

\* What the loop leaves when it has run out of fuel: out is "fuel".
out_of_fuel(st) == IF st.out = "loop" THEN [st EXCEPT !.out = "fuel"] ELSE st

\* PixelBuffer::draw_line (Bresenham), in a build that panics on integer
\* overflow (checks) or wraps.  Yields the buffer, the set_pixel calls made
\* (trace) and how the call ended (out).
draw_line(self, x0, y0, x1, y1, color, checks) ==
    LET s == line_setup(x0, y0, x1, y1)
        k == [x1 |-> x1, y1 |-> y1, dx |-> s.dx, dy |-> s.dy,
              sx |-> s.sx, sy |-> s.sy, color |-> color]
        st == [self |-> self, x |-> AsI32(x0), y |-> AsI32(y0),
               err |-> s.err, trace |-> <<>>, out |-> "loop"]
    IN  IF checks /\ s.ovf
        THEN [st EXCEPT !.out = "panic"]
        ELSE out_of_fuel(line_loop(st, k, checks, LineFuel))

\* One set_pixel of PixelBuffer::draw_rect: cell n of the width * height
\* cells, row by row (dy outer, dx inner).  x + dx and y + dy are u32 sums.
rect_step(st, x, y, width, color, checks) ==
    LET dy == st.n \div width
        dx == st.n % width
        px == x + dx
        py == y + dy
    IN  IF checks /\ (OverflowsU32(px) \/ OverflowsU32(py))
        THEN [st EXCEPT !.out = "panic"]
        ELSE [self |-> set_pixel(st.self, AsU32(px), AsU32(py), color).self,
              n |-> st.n + 1,
              trace |-> Append(st.trace, <<AsU32(px), AsU32(py)>>),
              out |-> "loop"]

RECURSIVE rect_loop(_, _, _, _, _, _, _)
rect_loop(st, x, y, width, height, color, checks) ==
    IF st.out # "loop" THEN st
    ELSE IF st.n >= width * height THEN [st EXCEPT !.out = "done"]
    ELSE CHOOSE r \in {rect_loop(n, x, y, width, height, color, checks) :
                          n \in {rect_step(st, x, y, width, color, checks)}} :
                   TRUE

\* PixelBuffer::draw_rect.
draw_rect(self, x, y, width, height, color, checks) ==
    rect_loop([self |-> self, n |-> 0, trace |-> <<>>, out |-> "loop"],
              x, y, width, height, color, checks)

---------------------------------------------------------------------------
(* The calls a client makes on a PixelBuffer *)

InX == 0..(WIDTH - 1)
InY == 0..(HEIGHT - 1)
\* Coordinates passed to set_pixel and get_pixel: every column and row, the
\* first one outside, and the largest u32.
XArgs == (0..WIDTH) \cup {U32Max}
YArgs == (0..HEIGHT) \cup {U32Max}
\* End points passed to draw_line by a client that stays inside the
\* buffer: every pixel.
InBounds == InX \X InY
\* End points passed to draw_line by any client: corners of the buffer,
\* points just outside it, and points whose i32 reading is negative or
\* the largest.
LinePoints ==
    {<<0, 0>>, <<WIDTH - 1, HEIGHT - 1>>, <<WIDTH, 1>>,
     <<U32Max, 1>>, <<I32Max + 1, 0>>, <<0, I32Max>>}
\* Corners and sizes passed to draw_rect.
RectX == {0, WIDTH - 1, U32Max}
RectY == {0, HEIGHT - 1, U32Max}
RectW == {0, 2, WIDTH + 1}
RectH == {1, HEIGHT + 1}

CanCall == status = "running" /\ nops < MaxOps

\* How a drawing call that ended with `out` leaves the program.
StatusAfter(out) ==
    CASE out = "done" -> "running"
      [] out = "panic" -> "panicked"
      [] out = "fuel" -> "spinning"

Clear ==
    /\ CanCall
    /\ \E color \in Palette \cup {Background} :
          /\ buffer' = clear(buffer, color)
          /\ call' = [op |-> "clear", color |-> color]
    /\ ret' = Unit
    /\ before' = buffer
    /\ trace' = <<>>
    /\ nops' = nops + 1
    /\ UNCHANGED <<overflow_checks, word_bits, status, physvars, rendvars>>

SetPixel ==
    /\ CanCall
    /\ \E x \in XArgs, y \in YArgs, color \in Palette :
          LET r == set_pixel(buffer, x, y, color)
          IN  /\ buffer' = r.self
              /\ ret' = r.ret
              /\ call' = [op |-> "set_pixel", x |-> x, y |-> y,
                          color |-> color]
    /\ before' = buffer
    /\ trace' = <<>>
    /\ nops' = nops + 1
    /\ UNCHANGED <<overflow_checks, word_bits, status, physvars, rendvars>>

GetPixel ==
    /\ CanCall
    /\ \E x \in XArgs, y \in YArgs :
          /\ ret' = get_pixel(buffer, x, y)
          /\ call' = [op |-> "get_pixel", x |-> x, y |-> y]
    /\ before' = buffer
    /\ trace' = <<>>
    /\ nops' = nops + 1
    /\ UNCHANGED <<buffer, overflow_checks, word_bits, status, physvars, rendvars>>

DrawLineBetween(points) ==
    /\ CanCall
    /\ \E p0 \in points, p1 \in points, color \in Palette :
          LET r == draw_line(buffer, p0[1], p0[2], p1[1], p1[2], color,
                             overflow_checks)
          IN  /\ buffer' = r.self
              /\ trace' = r.trace
              /\ status' = StatusAfter(r.out)
              /\ call' = [op |-> "draw_line", x0 |-> p0[1], y0 |-> p0[2],
                          x1 |-> p1[1], y1 |-> p1[2], color |-> color]
    /\ ret' = Unit
    /\ before' = buffer
    /\ nops' = nops + 1
    /\ UNCHANGED <<overflow_checks, word_bits, physvars, rendvars>>

DrawRect ==
    /\ CanCall
    /\ \E x \in RectX, y \in RectY, w \in RectW, h \in RectH,
          color \in Palette :
          LET r == draw_rect(buffer, x, y, w, h, color, overflow_checks)
          IN  /\ buffer' = r.self
              /\ trace' = r.trace
              /\ status' = StatusAfter(r.out)
              /\ call' = [op |-> "draw_rect", x |-> x, y |-> y,
                          width |-> w, height |-> h, color |-> color]
    /\ ret' = Unit
    /\ before' = buffer
    /\ nops' = nops + 1
    /\ UNCHANGED <<overflow_checks, word_bits, physvars, rendvars>>

\* A new PixelBuffer in a build with words of `bits` bits.
PixelInitOf(bits) ==
    /\ buffer = PixelBuffer_new
    /\ overflow_checks \in BOOLEAN
    /\ word_bits = bits
    /\ status = "running"
    /\ call = [op |-> "new"]
    /\ ret = Unit
    /\ before = PixelBuffer_new
    /\ trace = <<>>
    /\ nops = 0

PixelInit == PixelInitOf(WordBits)

DrawLine == DrawLineBetween(LinePoints)

DrawLineInBounds == DrawLineBetween(InBounds)

---------------------------------------------------------------------------
(* Fixed-point reals.  Time is in units of 1/960 s; lengths in 1e-4 m,    *)
(* velocities in 1e-4 m/s, angles in 1e-4 rad; forces in 0.1 N, torques   *)
(* in 0.01 N m.                                                           *)

\* n / d, truncated toward zero.
Trunc(n, d) == IF n >= 0 THEN n \div d ELSE -((-n) \div d)

Zero3 == <<0, 0, 0>>
VAdd(a, b) == <<a[1] + b[1], a[2] + b[2], a[3] + b[3]>>
\* v * num / den, component by component.
VMulDiv(v, num, den) ==
    <<Trunc(v[1] * num, den), Trunc(v[2] * num, den), Trunc(v[3] * num, den)>>

\* Time units per second.
Hz == 4 * 240
\* 1.0 / 240.0 s
DT_MIN == 4

\* vector![0.0, 0.0, -3.0]
START == <<0, 0, -30000>>
\* The orientation a body is built with.  An orientation is its rotation
\* vector: composing rotations adds them, which is exact for rotations
\* about one axis and stands for "some other orientation" otherwise.
IDENTITY == Zero3


---------------------------------------------------------------------------
(* PhysicsWorld, on rapier3d *)

\* A gravity of (0, -0.05, 0), as in the old terminal front end.
gravity_low == <<0, -500, 0>>

\* Vector::new(0.0, 0.0, 0.0) of PhysicsWorld::new
gravity == Zero3

\* Acceleration per unit of force on the drone: the inverse mass of
\* ColliderBuilder::ball(0.35) at rapier's default density 1.
RapierAccel == 5568
\* Angular acceleration per unit of torque: its inverse angular inertia.
RapierAngAccel == 11364
\* rb.set_linear_damping(0.9), rb.set_angular_damping(0.9), in tenths.
RAPIER_DAMPING == 9

\* PhysicsWorld::new: the drone at START, at rest, no force on it.
PhysicsWorld_new ==
    [gravity |-> gravity,
     dt |-> Hz \div 60,
     drone |-> [translation |-> START, linvel |-> Zero3,
                rotation |-> IDENTITY, angvel |-> Zero3,
                force |-> Zero3, torque |-> Zero3]]

\* RigidBody::add_force of rapier3d: adds to the body's user force, which
\* stays on the body until reset_forces is called.
add_force(rb, force) == [rb EXCEPT !.force = VAdd(rb.force, force)]

\* rapier's velocity damping over h: v / (1 + h * damping).
rapier_damp(v, h) ==
    VMulDiv(v, 10 * Hz, 10 * Hz + RAPIER_DAMPING * h)

\* PhysicsPipeline::step of rapier3d for the one body of this world (no
\* other collider, no joint): the forces on the body and gravity change
\* its velocities, damping scales them, and they move the body.  torque
\* is what acts on it besides its user torque.
pipeline_step(rb, g, h, torque) ==
    LET accel == VAdd(VMulDiv(rb.force, RapierAccel, 1), g)
        linvel == rapier_damp(VAdd(rb.linvel, VMulDiv(accel, h, Hz)), h)
        angacc == VMulDiv(VAdd(rb.torque, torque), RapierAngAccel, 1)
        angvel == rapier_damp(VAdd(rb.angvel, VMulDiv(angacc, h, Hz)), h)
    IN  [rb EXCEPT !.linvel = linvel,
                   !.angvel = angvel,
                   !.translation = VAdd(rb.translation, VMulDiv(linvel, h, Hz)),
                   !.rotation = VAdd(rb.rotation, VMulDiv(angvel, h, Hz))]

\* dt.max(1.0 / 240.0)
clamp_dt(dt) == Max(dt, DT_MIN)

\* `dt` taken as it is given.
no_clamp_dt(dt) == dt

\* PhysicsWorld::step
physics_step(self, dt, force_world) ==
    LET h == clamp_dt(dt)
    IN  [self EXCEPT !.dt = h,
                     !.drone = pipeline_step(add_force(self.drone, force_world),
                                             self.gravity, h, Zero3)]

\* PhysicsWorld::step_with_torque: as step, and the torque acts on the
\* drone in this step.
physics_step_with_torque(self, dt, force_world, torque) ==
    LET h == clamp_dt(dt)
    IN  [self EXCEPT !.dt = h,
                     !.drone = pipeline_step(add_force(self.drone, force_world),
                                             self.gravity, h, torque)]

\* PhysicsWorld::reset_drone
physics_reset_drone(self) ==
    [self EXCEPT !.drone.translation = START,
                 !.drone.linvel = Zero3,
                 !.drone.angvel = Zero3]

\* PhysicsWorld::stop_drone
physics_stop_drone(self) ==
    [self EXCEPT !.drone.linvel = Zero3, !.drone.angvel = Zero3]

---------------------------------------------------------------------------
(* WebPhysicsWorld, the integrator of the web front end *)

\* Acceleration per unit of force: `let acceleration = force`.
WebAccel == 1000

\* WebPhysicsWorld::new.  linear_damping and angular_damping are 0.9.
WebPhysicsWorld_new ==
    [position |-> START, velocity |-> Zero3,
     rotation |-> IDENTITY, angular_velocity |-> Zero3]

\* v * 0.9
web_damp(v) == VMulDiv(v, 9, 10)

\* angular_velocity.length() > 0.001, on the squares.
web_turning(w) == w[1] * w[1] + w[2] * w[2] + w[3] * w[3] > 10 * 10

\* WebPhysicsWorld::step
web_step(self, dt, force) ==
    LET velocity == web_damp(VAdd(self.velocity,
                                  VMulDiv(force, WebAccel * dt, Hz)))
        angular_velocity == web_damp(self.angular_velocity)
    IN  [position |-> VAdd(self.position, VMulDiv(velocity, dt, Hz)),
         velocity |-> velocity,
         rotation |-> IF web_turning(angular_velocity)
                      THEN VAdd(VMulDiv(angular_velocity, dt, Hz),
                                self.rotation)
                      ELSE self.rotation,
         angular_velocity |-> angular_velocity]

\* A steering call that turns the drone to the delta itself.
web_apply_rotation_delta_absolute(self, rotation_delta) ==
    [self EXCEPT !.rotation = rotation_delta,
                 !.angular_velocity = Zero3]

\* WebPhysicsWorld::apply_rotation_delta: delta_quat * self.rotation,
\* normalized.
web_apply_rotation_delta(self, rotation_delta) ==
    [self EXCEPT !.rotation = VAdd(rotation_delta, self.rotation),
                 !.angular_velocity = Zero3]

\* WebPhysicsWorld::reset_drone
web_reset_drone(self) ==
    [position |-> START, velocity |-> Zero3,
     rotation |-> IDENTITY, angular_velocity |-> Zero3]

\* A gentle stop that brakes as hard as the emergency brake.
web_gentle_stop_half(self) ==
    [self EXCEPT !.velocity = VMulDiv(self.velocity, 5, 10),
                 !.angular_velocity = VMulDiv(self.angular_velocity, 5, 10)]

\* WebPhysicsWorld::gentle_stop
web_gentle_stop(self) ==
    [self EXCEPT !.velocity = VMulDiv(self.velocity, 8, 10),
                 !.angular_velocity = VMulDiv(self.angular_velocity, 8, 10)]

\* WebPhysicsWorld::emergency_brake
web_emergency_brake(self) ==
    [self EXCEPT !.velocity = VMulDiv(self.velocity, 5, 10),
                 !.angular_velocity = VMulDiv(self.angular_velocity, 5, 10)]

---------------------------------------------------------------------------
(* The driven world, as its accessors show it *)

\* get_drone_position
get_drone_position ==
    IF driven = "PhysicsWorld" THEN physics.drone.translation
    ELSE web.position

\* get_drone_velocity
get_drone_velocity ==
    IF driven = "PhysicsWorld" THEN physics.drone.linvel ELSE web.velocity

\* get_drone_rotation
get_drone_rotation ==
    IF driven = "PhysicsWorld" THEN physics.drone.rotation ELSE web.rotation

AngularVelocity ==
    IF driven = "PhysicsWorld" THEN physics.drone.angvel
    ELSE web.angular_velocity

---------------------------------------------------------------------------
(* The calls a client makes on a physics world *)

\* dt: negative, zero, below 1/240 s, 1/240 s, 1/60 s, 0.2 s.
DtArgs == {-DT_MIN, 0, 1, DT_MIN, Hz \div 60, Hz \div 5}
\* Forces: none, ThrustForward (z + 0.3), ThrustUp (y + 0.5).
ForceArgs == {Zero3, <<0, 0, 3>>, <<0, 5, 0>>}
\* Torques: YawRight (y + 0.05), PitchUp (x - 0.05).
TorqueArgs == {<<0, 5, 0>>, <<-5, 0, 0>>}
\* Rotation deltas of the steering keys: yaw + 0.02, roll - 0.02.
DeltaArgs == {<<0, 200, 0>>, <<0, 0, -200>>}

CanCallPhysics(w) == driven = w /\ ncalls < MaxCalls

PhysicsStep ==
    /\ CanCallPhysics("PhysicsWorld")
    /\ \E dt \in DtArgs, force \in ForceArgs :
          /\ physics' = physics_step(physics, dt, force)
          /\ pcall' = [op |-> "step", dt |-> dt, force |-> force]
          /\ quiet' = (quiet /\ force = Zero3)
    /\ used_dt' = physics'.dt
    /\ pbefore' = physics
    /\ ncalls' = ncalls + 1
    /\ UNCHANGED <<web, driven, pbvars, rendvars>>

PhysicsStepWithTorque ==
    /\ CanCallPhysics("PhysicsWorld")
    /\ \E dt \in {DT_MIN, Hz \div 60}, force \in ForceArgs,
          torque \in TorqueArgs :
          /\ physics' = physics_step_with_torque(physics, dt, force, torque)
          /\ pcall' = [op |-> "step_with_torque", dt |-> dt,
                       force |-> force, torque |-> torque]
    /\ used_dt' = physics'.dt
    /\ quiet' = FALSE
    /\ pbefore' = physics
    /\ ncalls' = ncalls + 1
    /\ UNCHANGED <<web, driven, pbvars, rendvars>>

PhysicsResetDrone ==
    /\ CanCallPhysics("PhysicsWorld")
    /\ physics' = physics_reset_drone(physics)
    /\ pcall' = [op |-> "reset_drone"]
    /\ quiet' = FALSE
    /\ pbefore' = physics
    /\ ncalls' = ncalls + 1
    /\ UNCHANGED <<web, driven, used_dt, pbvars, rendvars>>

PhysicsStopDrone ==
    /\ CanCallPhysics("PhysicsWorld")
    /\ physics' = physics_stop_drone(physics)
    /\ pcall' = [op |-> "stop_drone"]
    /\ quiet' = FALSE
    /\ pbefore' = physics
    /\ ncalls' = ncalls + 1
    /\ UNCHANGED <<web, driven, used_dt, pbvars, rendvars>>

WebStep ==
    /\ CanCallPhysics("WebPhysicsWorld")
    /\ \E dt \in DtArgs, force \in ForceArgs :
          /\ web' = web_step(web, no_clamp_dt(dt), force)
          /\ used_dt' = no_clamp_dt(dt)
          /\ pcall' = [op |-> "step", dt |-> dt, force |-> force]
          /\ quiet' = (quiet /\ force = Zero3)
    /\ pbefore' = web
    /\ ncalls' = ncalls + 1
    /\ UNCHANGED <<physics, driven, pbvars, rendvars>>

WebApplyRotationDelta ==
    /\ CanCallPhysics("WebPhysicsWorld")
    /\ \E delta \in DeltaArgs :
          /\ web' = web_apply_rotation_delta(web, delta)
          /\ pcall' = [op |-> "apply_rotation_delta", delta |-> delta]
    /\ quiet' = FALSE
    /\ pbefore' = web
    /\ ncalls' = ncalls + 1
    /\ UNCHANGED <<physics, driven, used_dt, pbvars, rendvars>>

WebResetDrone ==
    /\ CanCallPhysics("WebPhysicsWorld")
    /\ web' = web_reset_drone(web)
    /\ pcall' = [op |-> "reset_drone"]
    /\ quiet' = FALSE
    /\ pbefore' = web
    /\ ncalls' = ncalls + 1
    /\ UNCHANGED <<physics, driven, used_dt, pbvars, rendvars>>

WebGentleStop ==
    /\ CanCallPhysics("WebPhysicsWorld")
    /\ web' = web_gentle_stop(web)
    /\ pcall' = [op |-> "gentle_stop"]
    /\ quiet' = FALSE
    /\ pbefore' = web
    /\ ncalls' = ncalls + 1
    /\ UNCHANGED <<physics, driven, used_dt, pbvars, rendvars>>

WebEmergencyBrake ==
    /\ CanCallPhysics("WebPhysicsWorld")
    /\ web' = web_emergency_brake(web)
    /\ pcall' = [op |-> "emergency_brake"]
    /\ quiet' = FALSE
    /\ pbefore' = web
    /\ ncalls' = ncalls + 1
    /\ UNCHANGED <<physics, driven, used_dt, pbvars, rendvars>>

PhysicsInit ==
    /\ physics = PhysicsWorld_new
    /\ web = WebPhysicsWorld_new
    /\ driven \in {"PhysicsWorld", "WebPhysicsWorld"}
    /\ pcall = [op |-> "new"]
    /\ pbefore = IF driven = "PhysicsWorld" THEN PhysicsWorld_new
                 ELSE WebPhysicsWorld_new
    /\ used_dt = 0
    /\ quiet = TRUE
    /\ ncalls = 0

---------------------------------------------------------------------------
(* Camera *)

\* Vector3::new(-1.5, 1.0, -2.0): behind, above and to the side.
OFFSET == <<-15000, 10000, -20000>>

CameraModes == {"FirstPerson", "ThirdPerson", "Free"}

\* Camera::new.  fov is in degrees, aspect the pair 320.0 / 240.0.
Camera_new ==
    [mode |-> "ThirdPerson",
     position |-> <<0, 0, -30000>>,
     target |-> Zero3,
     up |-> <<0, 1, 0>>,
     fov |-> 60,
     aspect |-> <<320, 240>>,
     near |-> 1000,
     far |-> 1000000]

\* A camera update that puts the camera at the drone.
camera_update_at_drone(self, drone_pos) ==
    [self EXCEPT !.position = drone_pos, !.target = drone_pos]

\* Camera::update.  self.mode is not read.
camera_update(self, drone_pos) ==
    [self EXCEPT !.position = VAdd(drone_pos, OFFSET), !.target = drone_pos]

\* Camera::set_mode
set_mode(self, mode) == [self EXCEPT !.mode = mode]

---------------------------------------------------------------------------
(* Camera matrices and world_to_screen.  A matrix is four rows of four    *)
(* entries in units of 1 / MatOne; a homogeneous point is <<x, y, z, w>>  *)
(* in length units, w = LenOne standing for 1.  Normalized device          *)
(* coordinates are in units of 1 / NdcOne, screen coordinates in units of *)
(* 1 / NdcOne of a pixel.                                                  *)

MatOne == 10 * 10 * 10
LenOne == 10 * MatOne
NdcOne == 10 * 10

\* The largest r with r * r <= n, between lo and hi.
RECURSIVE ISqrtIn(_, _, _)
ISqrtIn(n, lo, hi) ==
    IF lo >= hi THEN lo
    ELSE LET mid == (lo + hi + 1) \div 2
         IN  IF mid * mid <= n THEN ISqrtIn(n, mid, hi)
             ELSE ISqrtIn(n, lo, mid - 1)

\* f32::sqrt, on n < 2^31.
ISqrt(n) == ISqrtIn(n, 0, 46340)

VSub(a, b) == <<a[1] - b[1], a[2] - b[2], a[3] - b[3]>>
Dot(a, b) == a[1] * b[1] + a[2] * b[2] + a[3] * b[3]
Cross(a, b) ==
    <<a[2] * b[3] - a[3] * b[2],
      a[3] * b[1] - a[1] * b[3],
      a[1] * b[2] - a[2] * b[1]>>

\* v.normalize(), the unit vector in units of 1 / MatOne.
Normalize(v) == VMulDiv(v, MatOne, ISqrt(Dot(v, v)))

\* Matrix4::look_at_rh(eye, target, up) of nalgebra, eye and target in
\* length units; only the direction of up matters.
look_at_rh(eye, target, up) ==
    LET f == Normalize(VSub(target, eye))
        s == Normalize(Cross(f, up))
        u == VMulDiv(Cross(s, f), 1, MatOne)
        \* -(axis . eye), in metres times MatOne
        t(axis) == -Trunc(Dot(axis, eye), LenOne)
    IN  <<<<s[1], s[2], s[3], t(s)>>,
          <<u[1], u[2], u[3], t(u)>>,
          <<-f[1], -f[2], -f[3], -t(f)>>,
          <<0, 0, 0, MatOne>>>>

\* 1 / tan(fov / 2) in units of 1 / MatOne, for the fov of Camera::new:
\* 1 / tan(30 degrees) is the square root of 3.
CotHalf(fov) == CASE fov = 60 -> ISqrt(3 * MatOne * MatOne)

\* Matrix4::new_perspective(aspect, fovy, near, far) of nalgebra, near
\* and far in length units.
new_perspective(aspect, fovy, near, far) ==
    LET f == CotHalf(fovy)
    IN  <<<<Trunc(f * aspect[2], aspect[1]), 0, 0, 0>>,
          <<0, f, 0, 0>>,
          <<0, 0, -Trunc((far + near) * MatOne, far - near),
                  -Trunc(Trunc(2 * far, LenOne) * near * MatOne, far - near)>>,
          <<0, 0, -MatOne, 0>>>>

\* a * b for 4 x 4 matrices.
MatMul(a, b) ==
    [i \in 1..4 |->
        [j \in 1..4 |->
            Trunc(a[i][1] * b[1][j] + a[i][2] * b[2][j]
                  + a[i][3] * b[3][j] + a[i][4] * b[4][j], MatOne)]]

\* m * p for a homogeneous point p.
MatVec(m, p) ==
    [i \in 1..4 |->
        Trunc(m[i][1] * p[1] + m[i][2] * p[2]
              + m[i][3] * p[3] + m[i][4] * p[4], MatOne)]

\* Camera::get_view_matrix
get_view_matrix(self) == look_at_rh(self.position, self.target, self.up)

\* Camera::get_projection_matrix
get_projection_matrix(self) ==
    new_perspective(self.aspect, self.fov, self.near, self.far)

\* Camera::get_view_projection_matrix
get_view_projection_matrix(self) ==
    MatMul(get_projection_matrix(self), get_view_matrix(self))

\* world_to_screen with the frustum test that the code has commented out.
world_to_screen_clipped(world_pos, view_projection, screen_width, screen_height) ==
    LET clip_space == MatVec(view_projection,
                             <<world_pos[1], world_pos[2], world_pos[3],
                               LenOne>>)
        w == clip_space[4]
        ndc_x == Trunc(clip_space[1] * NdcOne, w)
        ndc_y == Trunc(clip_space[2] * NdcOne, w)
        ndc_z == Trunc(clip_space[3] * NdcOne, w)
    IN  IF w <= 0 THEN None
        ELSE IF \/ ndc_x < -NdcOne \/ ndc_x > NdcOne
                \/ ndc_y < -NdcOne \/ ndc_y > NdcOne
                \/ ndc_z < 0 \/ ndc_z > NdcOne
        THEN None
        ELSE <<Trunc((ndc_x + NdcOne) * screen_width, 2),
               Trunc((NdcOne - ndc_y) * screen_height, 2),
               ndc_z>>

\* world_to_screen: None, or Some((x, y, depth)) as <<x, y, depth>>.
world_to_screen(world_pos, view_projection, screen_width, screen_height) ==
    LET clip_space == MatVec(view_projection,
                             <<world_pos[1], world_pos[2], world_pos[3],
                               LenOne>>)
        w == clip_space[4]
        ndc_x == Trunc(clip_space[1] * NdcOne, w)
        ndc_y == Trunc(clip_space[2] * NdcOne, w)
        ndc_z == Trunc(clip_space[3] * NdcOne, w)
    IN  IF w <= 0 THEN None
        ELSE <<Trunc((ndc_x + NdcOne) * screen_width, 2),
               Trunc((NdcOne - ndc_y) * screen_height, 2),
               ndc_z>>

\* `v as u32` for an f32 v in units of 1 / NdcOne: toward zero, and
\* saturating, so that every negative v gives 0.
f32_as_u32(v) ==
    IF v <= 0 THEN 0
    ELSE IF v \div NdcOne > U32Max THEN U32Max
    ELSE v \div NdcOne

\* The eight corners of the cube of render_cube_at, in its order.
cube_corners(center, size) ==
    LET h == size \div 2
        c(dx, dy, dz) ==
            <<center[1] + dx * h, center[2] + dy * h, center[3] + dz * h>>
    IN  <<c(-1, -1, -1), c(1, -1, -1), c(1, 1, -1), c(-1, 1, -1),
          c(-1, -1, 1), c(1, -1, 1), c(1, 1, 1), c(-1, 1, 1)>>

\* The twelve edges of render_cube_at as pairs of corner indices, 1-based.
cube_edges ==
    <<<<1, 2>>, <<2, 3>>, <<3, 4>>, <<4, 1>>,
      <<5, 6>>, <<6, 7>>, <<7, 8>>, <<8, 5>>,
      <<1, 5>>, <<2, 6>>, <<3, 7>>, <<4, 8>>>>

\* screen_corners of render_cube_at: None, or Some((x as u32, y as u32))
\* as <<x, y>>.
screen_corners(self, view_proj, corners) ==
    [i \in 1..Len(corners) |->
        LET screen_pos == world_to_screen(corners[i], view_proj,
                                          self.width, self.height)
        IN  IF screen_pos = None THEN None
            ELSE <<f32_as_u32(screen_pos[1]), f32_as_u32(screen_pos[2])>>]

\* A draw_line call in the log of calls.
LineCall(x0, y0, x1, y1, color) ==
    [op |-> "draw_line", x0 |-> x0, y0 |-> y0, x1 |-> x1, y1 |-> y1,
     color |-> color]

\* An edge loop that draws an edge when one of its corners is projected,
\* from or to pixel (0, 0) in place of the other.
edge_step_either(st, edge, corners2d, color, checks) ==
    LET start == IF corners2d[edge[1]] = None THEN <<0, 0>>
                 ELSE corners2d[edge[1]]
        end == IF corners2d[edge[2]] = None THEN <<0, 0>>
               ELSE corners2d[edge[2]]
    IN  IF corners2d[edge[1]] = None /\ corners2d[edge[2]] = None THEN st
        ELSE CHOOSE n \in
                 {[self |-> r.self, trace |-> st.trace \o r.trace,
                   calls |-> Append(st.calls,
                                    LineCall(start[1], start[2], end[1],
                                             end[2], color)),
                   out |-> IF r.out = "done" THEN "loop" ELSE r.out] :
                     r \in {draw_line(st.self, start[1], start[2], end[1],
                                      end[2], color, checks)}} : TRUE

\* One edge of the edge loop of render_cube_at, in state
\* st = [self, trace, calls, out].
edge_step(st, edge, corners2d, color, checks) ==
    LET start == corners2d[edge[1]]
        end == corners2d[edge[2]]
    IN  IF start = None \/ end = None THEN st
        ELSE CHOOSE n \in
                 {[self |-> r.self, trace |-> st.trace \o r.trace,
                   calls |-> Append(st.calls,
                                    LineCall(start[1], start[2], end[1],
                                             end[2], color)),
                   out |-> IF r.out = "done" THEN "loop" ELSE r.out] :
                     r \in {draw_line(st.self, start[1], start[2], end[1],
                                      end[2], color, checks)}} : TRUE

\* The first half of a sequence, and the rest of it.
FirstHalf(seq) == SubSeq(seq, 1, Len(seq) \div 2)
SecondHalf(seq) == SubSeq(seq, (Len(seq) \div 2) + 1, Len(seq))

\* What a loop over a sequence leaves when it has come to its end.
finished(st) == IF st.out = "loop" THEN [st EXCEPT !.out = "done"] ELSE st

\* for (start_idx, end_idx, edge_color) in edges.iter() { ... }: the first
\* half of the edges, then the rest.
RECURSIVE edge_loop(_, _, _, _, _)
edge_loop(st, edges, corners2d, color, checks) ==
    IF st.out # "loop" \/ edges = <<>> THEN st
    ELSE IF Len(edges) = 1
    THEN edge_step(st, edges[1], corners2d, color, checks)
    ELSE CHOOSE r \in
             {edge_loop(half, SecondHalf(edges), corners2d, color, checks) :
                 half \in {edge_loop(st, FirstHalf(edges), corners2d, color,
                                     checks)}} : TRUE

\* Renderer::render_cube_at on the buffer self.  Yields the buffer, the
\* set_pixel calls made (trace), the draw_line calls made (calls) and how
\* the call ended (out).
render_cube_at(self, view_proj, center, size, color, checks) ==
    CHOOSE r \in
        {finished(edge_loop([self |-> self, trace |-> <<>>, calls |-> <<>>,
                             out |-> "loop"], cube_edges, corners2d, color,
                            checks)) :
            corners2d \in {screen_corners(self, view_proj,
                                          cube_corners(center, size))}} :
        TRUE

---------------------------------------------------------------------------
(* Renderer::update *)

\* InputEvent values.
Ev(tag) == [tag |-> tag]
CameraModeEv(mode) == [tag |-> "CameraMode", mode |-> mode]

\* What an input event adds to thrust_force.
thrust_of(event) ==
    CASE event.tag = "ThrustForward" -> <<0, 0, 3>>
      [] event.tag = "ThrustBackward" -> <<0, 0, -3>>
      [] event.tag = "ThrustLeft" -> <<-3, 0, 0>>
      [] event.tag = "ThrustRight" -> <<3, 0, 0>>
      [] event.tag = "ThrustUp" -> <<0, 5, 0>>
      [] event.tag = "ThrustDown" -> <<0, -5, 0>>
      [] OTHER -> Zero3

\* What an input event adds to angular_force.
torque_of(event) ==
    CASE event.tag = "PitchUp" -> <<-5, 0, 0>>
      [] event.tag = "PitchDown" -> <<5, 0, 0>>
      [] event.tag = "YawLeft" -> <<0, -5, 0>>
      [] event.tag = "YawRight" -> <<0, 5, 0>>
      [] event.tag = "RollLeft" -> <<0, 0, -5>>
      [] event.tag = "RollRight" -> <<0, 0, 5>>
      [] OTHER -> Zero3

\* An event handler that sets the accumulators instead of adding to them.
apply_event_last_wins(r, event) ==
    CASE event.tag = "CameraMode" ->
            [r EXCEPT !.camera = set_mode(r.camera, event.mode)]
      [] event.tag = "Reset" ->
            [r EXCEPT !.physics = physics_reset_drone(r.physics)]
      [] event.tag = "Stop" ->
            [r EXCEPT !.physics = physics_stop_drone(r.physics)]
      [] event.tag = "Exit" -> r
      [] OTHER ->
            [r EXCEPT !.thrust_force =
                          IF thrust_of(event) # Zero3 THEN thrust_of(event)
                          ELSE r.thrust_force,
                      !.angular_force =
                          IF torque_of(event) # Zero3 THEN torque_of(event)
                          ELSE r.angular_force]

\* One arm of the match of Renderer::update, on the renderer
\* r = [physics, camera, thrust_force, angular_force].
apply_event(r, event) ==
    CASE event.tag = "CameraMode" ->
            [r EXCEPT !.camera = set_mode(r.camera, event.mode)]
      [] event.tag = "Reset" ->
            [r EXCEPT !.physics = physics_reset_drone(r.physics)]
      [] event.tag = "Stop" ->
            [r EXCEPT !.physics = physics_stop_drone(r.physics)]
      [] event.tag = "Exit" -> r
      [] OTHER ->
            [r EXCEPT !.thrust_force = VAdd(r.thrust_force, thrust_of(event)),
                      !.angular_force =
                          VAdd(r.angular_force, torque_of(event))]

\* for event in input_events { ... }
RECURSIVE process_events(_, _)
process_events(r, input_events) ==
    IF input_events = <<>> THEN r
    ELSE process_events(apply_event(r, Head(input_events)),
                        Tail(input_events))

\* self.thrust_force = Vector::new(0.0, 0.0, 0.0), and angular_force.
reset_forces(r) ==
    [r EXCEPT !.thrust_force = Zero3, !.angular_force = Zero3]

\* Renderer::update.  The result carries the physics steps it made.
renderer_update(r, dt, input_events) ==
    LET a == process_events(r, input_events)
        stepped == physics_step_with_torque(a.physics, dt, a.thrust_force,
                                            a.angular_force)
        drone_pos == stepped.drone.translation
        b == reset_forces([a EXCEPT !.physics = stepped])
    IN  [physics |-> b.physics,
         camera |-> camera_update(b.camera, drone_pos),
         thrust_force |-> b.thrust_force,
         angular_force |-> b.angular_force,
         steps |-> <<[dt |-> dt, force |-> a.thrust_force,
                      torque |-> a.angular_force]>>]

\* Renderer::new
Renderer_new ==
    [physics |-> PhysicsWorld_new,
     camera |-> Camera_new,
     thrust_force |-> Zero3,
     angular_force |-> Zero3]

---------------------------------------------------------------------------
(* Renderer::render.  A drawing step yields [self, trace, calls, out]: the *)
(* buffer, the set_pixel calls made, the drawing calls made, and "done"   *)
(* or how it failed.                                                       *)

\* let cube_size = 2.0
CUBE_SIZE == 2 * LenOne
\* let cube_spacing = 15.0
CUBE_SPACING == 15 * LenOne
\* let grid_radius = 1
GRID_RADIUS == 1
\* let size = 8 of render_drone, in pixels of the scaled-down buffer.
DRONE_SIZE == 1
\* The centre dot of render_drone, draw_rect(x - 2, y - 2, 4, 4), in
\* pixels of the scaled-down buffer: the pixel of the centre.
DOT_BACK == 0
DOT_SIZE == 1

\* F(v), with v computed once.
With(v, F(_)) == CHOOSE r \in {F(x) : x \in {v}} : TRUE

\* The drawing step r, made after the steps of st.
AndThen(st, r) ==
    [self |-> r.self, trace |-> st.trace \o r.trace,
     calls |-> st.calls \o r.calls, out |-> r.out]

\* The steps of st and then, unless they failed, the drawing step F on the
\* buffer they left.
Then(st, F(_)) ==
    IF st.out # "done" THEN st
    ELSE With(F(st.self), LAMBDA r : AndThen(st, r))

\* A drawing step that draws nothing on self.
Nothing(self) ==
    [self |-> self, trace |-> <<>>, calls |-> <<>>, out |-> "done"]

\* (v / d).round(), for d > 0: to the nearest integer, halves away from
\* zero.
round_div(v, d) ==
    IF v >= 0 THEN (2 * v + d) \div (2 * d)
    ELSE -((2 * (-v) + d) \div (2 * d))

\* `n as i32` of an f32 with the integer value n: saturating.
f32_as_i32(n) ==
    IF n > I32Max THEN I32Max ELSE IF n < I32Min THEN I32Min ELSE n

\* grid_center_x, grid_center_y, grid_center_z of render_room.
grid_center(drone_pos) ==
    [a \in 1..3 |-> f32_as_i32(round_div(drone_pos[a], CUBE_SPACING))]

\* (c - grid_radius)..=(c + grid_radius) on i32, as the sequence of its
\* values: empty when the upper end has wrapped below the lower one.
axis_range(c) ==
    LET lo == WrapI32(c - GRID_RADIUS)
        hi == WrapI32(c + GRID_RADIUS)
    IN  [n \in 1..Max(hi - lo + 1, 0) |-> lo + n - 1]

\* One of the two ends of that range overflows the i32.
range_overflows(c) ==
    OverflowsI32(c - GRID_RADIUS) \/ OverflowsI32(c + GRID_RADIUS)

\* The grid cells render_room visits, in the order of its three loops, or
\* the panic of a range end that overflows in a build that checks.  The
\* range of an inner loop is computed when the loop around it is in its
\* first pass.
grid_cells(drone_pos, checks) ==
    LET c == grid_center(drone_pos)
        xs == axis_range(c[1])
        ys == axis_range(c[2])
        zs == axis_range(c[3])
        panics ==
            /\ checks
            /\ \/ range_overflows(c[1])
               \/ xs # <<>> /\ range_overflows(c[2])
               \/ xs # <<>> /\ ys # <<>> /\ range_overflows(c[3])
    IN  IF panics THEN [out |-> "panic", cells |-> <<>>]
        ELSE [out |-> "done",
              cells |-> [n \in 1..(Len(xs) * Len(ys) * Len(zs)) |->
                            <<xs[((n - 1) \div (Len(ys) * Len(zs))) + 1],
                              ys[(((n - 1) \div Len(zs)) % Len(ys)) + 1],
                              zs[((n - 1) % Len(zs)) + 1]>>]]

\* gx as f32 * cube_spacing, and gy, gz.
cell_center(cell) ==
    <<cell[1] * CUBE_SPACING, cell[2] * CUBE_SPACING, cell[3] * CUBE_SPACING>>

\* A render_cube_at call in the log of calls.
CubeCall(center) == [op |-> "render_cube_at", center |-> center]

\* One cube of the loops of render_room.
room_step(st, cell, view_proj, checks) ==
    With(render_cube_at(st.self, view_proj, cell_center(cell), CUBE_SIZE,
                        White, checks),
         LAMBDA r :
            [self |-> r.self, trace |-> st.trace \o r.trace,
             calls |-> Append(st.calls, CubeCall(cell_center(cell)))
                           \o r.calls,
             out |-> IF r.out = "done" THEN "loop" ELSE r.out])

\* The three loops of render_room over the cells: the first half of
\* them, then the rest.
RECURSIVE room_loop(_, _, _, _)
room_loop(st, cells, view_proj, checks) ==
    IF st.out # "loop" \/ cells = <<>> THEN st
    ELSE IF Len(cells) = 1 THEN room_step(st, cells[1], view_proj, checks)
    ELSE CHOOSE r \in
             {room_loop(half, SecondHalf(cells), view_proj, checks) :
                 half \in {room_loop(st, FirstHalf(cells), view_proj,
                                     checks)}} : TRUE

\* Renderer::render_room on the buffer self, the drone being at drone_pos.
render_room(self, drone_pos, view_proj, checks) ==
    With(grid_cells(drone_pos, checks),
         LAMBDA grid :
            IF grid.out = "panic"
            THEN [Nothing(self) EXCEPT !.out = "panic"]
            ELSE finished(room_loop([self |-> self, trace |-> <<>>,
                                     calls |-> <<>>, out |-> "loop"],
                                    grid.cells, view_proj, checks)))

\* The PixelBuffer call call_ as a drawing step, r being what it did.
DrawnBy(call_, r) ==
    [self |-> r.self, trace |-> r.trace, calls |-> <<call_>>, out |-> r.out]

\* A render that does not clear: the call is made and fills nothing.
clear_step_skipped(self, color) ==
    [self |-> self, trace |-> <<>>,
     calls |-> <<[op |-> "clear", color |-> color]>>, out |-> "done"]

\* A clear that fills a buffer drawn before with black instead of color.
clear_step_by_age(self, color) ==
    [self |-> IF \A i \in DOMAIN self.pixels : self.pixels[i] = Black
              THEN clear(self, color) ELSE clear(self, Black),
     trace |-> <<>>,
     calls |-> <<[op |-> "clear", color |-> color]>>, out |-> "done"]

\* self.buffer.clear(color) as a drawing step.
clear_step(self, color) ==
    [self |-> clear(self, color), trace |-> <<>>,
     calls |-> <<[op |-> "clear", color |-> color]>>, out |-> "done"]

\* self.buffer.draw_line(...) as a drawing step.
line_step_of(self, x0, y0, x1, y1, color, checks) ==
    With(draw_line(self, x0, y0, x1, y1, color, checks),
         LAMBDA r : DrawnBy(LineCall(x0, y0, x1, y1, color), r))

\* self.buffer.draw_rect(...) as a drawing step.
rect_step_of(self, x, y, width, height, color, checks) ==
    With(draw_rect(self, x, y, width, height, color, checks),
         LAMBDA r : DrawnBy([op |-> "draw_rect", x |-> x, y |-> y,
                             width |-> width, height |-> height,
                             color |-> color], r))

\* x.saturating_sub(n) on u32.
saturating_sub(x, n) == IF x >= n THEN x - n ELSE 0

\* The cross and the dot of render_drone at pixel (x, y).
drone_marker(self, x, y, checks) ==
    With(line_step_of(self, x - DRONE_SIZE, y, x + DRONE_SIZE, y, Red,
                      checks),
         LAMBDA across :
            With(Then(across,
                      LAMBDA b : line_step_of(b, x, y - DRONE_SIZE, x,
                                              y + DRONE_SIZE, Red, checks)),
                 LAMBDA down :
                    Then(down,
                         LAMBDA b : rect_step_of(
                                        b, saturating_sub(x, DOT_BACK),
                                        saturating_sub(y, DOT_BACK),
                                        DOT_SIZE, DOT_SIZE, Red, checks))))

\* render_drone once the drone is projected to screen_pos.  x + size and
\* y + size are u32 sums, evaluated left to right as far as && goes.
drone_at(self, screen_pos, checks) ==
    LET x == f32_as_u32(screen_pos[1])
        y == f32_as_u32(screen_pos[2])
        size == DRONE_SIZE
        panic == [Nothing(self) EXCEPT !.out = "panic"]
    IN  IF ~(x >= size /\ y >= size) THEN Nothing(self)
        ELSE IF OverflowsU32(x + size) /\ checks THEN panic
        ELSE IF ~(AsU32(x + size) < self.width) THEN Nothing(self)
        ELSE IF OverflowsU32(y + size) /\ checks THEN panic
        ELSE IF ~(AsU32(y + size) < self.height) THEN Nothing(self)
        ELSE drone_marker(self, x, y, checks)

\* Renderer::render_drone on the buffer self.
render_drone(self, drone_pos, view_proj, checks) ==
    With(world_to_screen(drone_pos, view_proj, self.width, self.height),
         LAMBDA screen_pos :
            IF screen_pos = None THEN Nothing(self)
            ELSE drone_at(self, screen_pos, checks))

\* Renderer::render once view_proj is computed.
render_with(self, drone_pos, view_proj, checks) ==
    With(Then(clear_step(self, Background),
              LAMBDA b : render_room(b, drone_pos, view_proj, checks)),
         LAMBDA room :
            Then(room,
                 LAMBDA b : render_drone(b, drone_pos, view_proj, checks)))

\* Renderer::render of the renderer r on the buffer self.
render(self, r, checks) ==
    With(get_view_projection_matrix(r.camera),
         LAMBDA view_proj :
            render_with(self, r.physics.drone.translation, view_proj,
                        checks))

---------------------------------------------------------------------------
(* The calls a front end makes on a Renderer and its camera *)

\* 0.016 s, the dt of the front ends' one-event updates.
DT_FRAME == 15

\* dt of an update: a frame, and one below 1/240 s.
UpdateDt == {DT_FRAME, 1}

EventLists ==
    {<<>>,
     <<Ev("ThrustForward")>>,
     <<Ev("ThrustForward"), Ev("ThrustForward")>>,
     <<Ev("ThrustBackward"), Ev("ThrustUp")>>,
     <<Ev("ThrustLeft"), Ev("ThrustRight"), Ev("ThrustDown")>>,
     <<Ev("PitchUp")>>,
     <<Ev("YawRight"), Ev("RollLeft")>>,
     <<Ev("PitchDown"), Ev("YawLeft"), Ev("RollRight")>>,
     <<Ev("Reset")>>,
     <<Ev("Stop")>>,
     <<Ev("ThrustForward"), Ev("Stop"), Ev("YawRight")>>,
     <<CameraModeEv("FirstPerson")>>,
     <<CameraModeEv("Free"), Ev("Exit")>>,
     <<CameraModeEv("ThirdPerson"), Ev("ThrustUp")>>}

\* Drone positions passed to Camera::update.
PosArgs == {START, <<10000, -20000, 0>>}

CanCallRenderer ==
    driven = "PhysicsWorld" /\ status = "running" /\ ncalls < MaxCalls

UpdateWith(lists) ==
    /\ CanCallRenderer
    /\ \E dt \in UpdateDt, events \in lists :
          LET r == renderer_update(
                       [physics |-> physics, camera |-> camera,
                        thrust_force |-> thrust_force,
                        angular_force |-> angular_force], dt, events)
          IN  /\ physics' = r.physics
              /\ camera' = r.camera
              /\ thrust_force' = r.thrust_force
              /\ angular_force' = r.angular_force
              /\ steps' = r.steps
              /\ drawcalls' = <<>>
              /\ made' = <<"update">>
              /\ rcall' = [op |-> "update", dt |-> dt, events |-> events]
              /\ quiet' = (quiet /\ events = <<>>)
    /\ pcall' = rcall'
    /\ pbefore' = physics
    /\ cbefore' = camera
    /\ used_dt' = physics'.dt
    /\ ncalls' = ncalls + 1
    /\ UNCHANGED <<web, driven, pbvars>>

Update == UpdateWith(EventLists)

\* Event lists of several keys held at once, opposite ones among them.
HeldLists ==
    {<<Ev("ThrustForward"), Ev("ThrustBackward")>>,
     <<Ev("ThrustLeft"), Ev("ThrustUp"), Ev("ThrustRight"),
       Ev("ThrustDown")>>,
     <<Ev("ThrustUp"), Ev("Reset"), Ev("Stop")>>,
     <<Ev("YawRight"), Ev("ThrustForward"), Ev("RollLeft"), Ev("Stop")>>,
     <<Ev("PitchDown"), Ev("PitchDown"), Ev("PitchDown"), Ev("PitchUp"),
       Ev("PitchUp"), Ev("PitchUp")>>}

UpdateHeld == UpdateWith(HeldLists)

CameraUpdate ==
    /\ CanCallRenderer
    /\ \E p \in PosArgs :
          /\ camera' = camera_update(camera, p)
          /\ rcall' = [op |-> "camera_update", drone_pos |-> p]
    /\ cbefore' = camera
    /\ steps' = <<>>
    /\ drawcalls' = <<>>
    /\ made' = <<>>
    /\ ncalls' = ncalls + 1
    /\ UNCHANGED <<thrust_force, angular_force, physics, web, driven, pcall,
                   pbefore, used_dt, quiet, pbvars>>

CameraSetMode ==
    /\ CanCallRenderer
    /\ \E mode \in CameraModes :
          /\ camera' = set_mode(camera, mode)
          /\ rcall' = [op |-> "set_mode", mode |-> mode]
    /\ cbefore' = camera
    /\ steps' = <<>>
    /\ drawcalls' = <<>>
    /\ made' = <<>>
    /\ ncalls' = ncalls + 1
    /\ UNCHANGED <<thrust_force, angular_force, physics, web, driven, pcall,
                   pbefore, used_dt, quiet, pbvars>>

\* Projecting and drawing with the renderer's camera.

\* World points: the drone's start, the origin, corners of the cube at the
\* origin, points 15 m to the sides, and a point 5 cm in front of the
\* camera of Camera::new and half a metre to its side.
PointArgs ==
    {START, Zero3, <<10000, 10000, 10000>>, <<-10000, -10000, -10000>>,
     <<150000, 0, 0>>, <<-150000, 0, -150000>>, <<0, 150000, 0>>,
     <<5000, 0, -29500>>}

\* Centres of cubes of the grid around the origin.
CubeCenters ==
    {Zero3, <<CUBE_SPACING, 0, 0>>, <<0, CUBE_SPACING, 0>>,
     <<0, 0, CUBE_SPACING>>, <<-CUBE_SPACING, 0, CUBE_SPACING>>,
     <<0, -CUBE_SPACING, -CUBE_SPACING>>}

WorldToScreen ==
    /\ CanCallRenderer
    /\ \E p \in PointArgs :
          /\ ret' = world_to_screen(p, get_view_projection_matrix(camera),
                                    buffer.width, buffer.height)
          /\ rcall' = [op |-> "world_to_screen", world_pos |-> p]
    /\ cbefore' = camera
    /\ steps' = <<>>
    /\ drawcalls' = <<>>
    /\ made' = <<>>
    /\ ncalls' = ncalls + 1
    /\ UNCHANGED <<camera, thrust_force, angular_force, physics, web, driven,
                   pcall, pbefore, used_dt, quiet, buffer, overflow_checks, word_bits,
                   status, call, before, trace, nops>>

RenderCubeAt ==
    /\ CanCallRenderer
    /\ \E center \in CubeCenters, color \in Palette :
          \E r \in {render_cube_at(buffer, get_view_projection_matrix(camera),
                                   center, CUBE_SIZE, color,
                                   overflow_checks)} :
              /\ buffer' = r.self
              /\ trace' = r.trace
              /\ status' = StatusAfter(r.out)
              /\ drawcalls' = r.calls
              /\ made' = <<>>
              /\ rcall' = [op |-> "render_cube_at", center |-> center,
                           color |-> color]
    /\ before' = buffer
    /\ cbefore' = camera
    /\ steps' = <<>>
    /\ ncalls' = ncalls + 1
    /\ UNCHANGED <<camera, thrust_force, angular_force, physics, web, driven,
                   pcall, pbefore, used_dt, quiet, overflow_checks, word_bits, call,
                   ret, nops>>

CanHandle ==
    driven = "PhysicsWorld" /\ status = "running" /\ ncalls < MaxFrames

\* Renderer::render, called on its own.
Render ==
    /\ CanHandle
    /\ \E r \in {render(buffer, [physics |-> physics, camera |-> camera],
                         overflow_checks)} :
          /\ buffer' = r.self
          /\ trace' = r.trace
          /\ drawcalls' = r.calls
          /\ status' = StatusAfter(r.out)
    /\ rcall' = [op |-> "render"]
    /\ made' = <<"render">>
    /\ before' = buffer
    /\ cbefore' = camera
    /\ steps' = <<>>
    /\ ncalls' = ncalls + 1
    /\ UNCHANGED <<camera, thrust_force, angular_force, physics, web, driven,
                   pcall, pbefore, used_dt, quiet, overflow_checks, word_bits, call,
                   ret, nops>>

\* The events a key press is turned into.
KeyEvents == {Ev("ThrustForward"), Ev("Reset"), Ev("Stop")}

\* The events of the keys held down during a frame.
HeldEvents == {<<>>, <<Ev("ThrustUp")>>}

\* A key handler of a front end: update(0.016, &[event]), and no render.
HandleKeyDown ==
    /\ CanHandle
    /\ \E event \in KeyEvents :
          LET r == renderer_update(
                       [physics |-> physics, camera |-> camera,
                        thrust_force |-> thrust_force,
                        angular_force |-> angular_force], DT_FRAME,
                       <<event>>)
          IN  /\ physics' = r.physics
              /\ camera' = r.camera
              /\ thrust_force' = r.thrust_force
              /\ angular_force' = r.angular_force
              /\ steps' = r.steps
              /\ rcall' = [op |-> "update", dt |-> DT_FRAME,
                           events |-> <<event>>]
    /\ made' = <<"update">>
    /\ drawcalls' = <<>>
    /\ quiet' = FALSE
    /\ pcall' = rcall'
    /\ pbefore' = physics
    /\ cbefore' = camera
    /\ used_dt' = physics'.dt
    /\ ncalls' = ncalls + 1
    /\ UNCHANGED <<web, driven, pbvars>>

\* A frame of a front end: update(dt, &input_events), then render().
Frame ==
    /\ CanHandle
    /\ \E events \in HeldEvents :
          \E u \in {renderer_update(
                        [physics |-> physics, camera |-> camera,
                         thrust_force |-> thrust_force,
                         angular_force |-> angular_force], DT_FRAME,
                        events)} :
          \E r \in {render(buffer, u, overflow_checks)} :
              /\ physics' = u.physics
              /\ camera' = u.camera
              /\ thrust_force' = u.thrust_force
              /\ angular_force' = u.angular_force
              /\ steps' = u.steps
              /\ pcall' = [op |-> "update", dt |-> DT_FRAME,
                           events |-> events]
              /\ quiet' = (quiet /\ events = <<>>)
              /\ buffer' = r.self
              /\ trace' = r.trace
              /\ drawcalls' = r.calls
              /\ status' = StatusAfter(r.out)
    /\ rcall' = [op |-> "render"]
    /\ made' = <<"update", "render">>
    /\ before' = buffer
    /\ pbefore' = physics
    /\ cbefore' = camera
    /\ used_dt' = physics'.dt
    /\ ncalls' = ncalls + 1
    /\ UNCHANGED <<web, driven, overflow_checks, word_bits, call, ret, nops>>

RendererInit ==
    /\ camera = Renderer_new.camera
    /\ thrust_force = Renderer_new.thrust_force
    /\ angular_force = Renderer_new.angular_force
    /\ rcall = [op |-> "new"]
    /\ cbefore = Camera_new
    /\ steps = <<>>
    /\ drawcalls = <<>>
    /\ made = <<>>

---------------------------------------------------------------------------
(* Specifications *)

vars == <<pbvars, physvars, rendvars>>

Init == PixelInit /\ PhysicsInit /\ RendererInit

\* The pixel buffer of a program, in either build.
InitPixel == Init /\ driven = "PhysicsWorld"

\* A physics world of a program.
InitPhysics == Init /\ overflow_checks

PixelNext == Clear \/ SetPixel \/ GetPixel \/ DrawLine \/ DrawRect

LineNext == Clear \/ DrawLineInBounds

PhysicsNext ==
    \/ PhysicsStep \/ PhysicsStepWithTorque
    \/ PhysicsResetDrone \/ PhysicsStopDrone
    \/ WebStep \/ WebApplyRotationDelta \/ WebResetDrone
    \/ WebGentleStop \/ WebEmergencyBrake

RendererNext == Update \/ CameraUpdate \/ CameraSetMode

\* A renderer of a program, in either build.
InitRenderer == Init /\ driven = "PhysicsWorld"

\* A front end that drives a Renderer and its camera.
SpecRenderer == InitRenderer /\ [][RendererNext]_vars

ProjectNext == CameraUpdate \/ WorldToScreen \/ RenderCubeAt

\* A renderer that projects points and draws cubes with its camera.
SpecProject == InitRenderer /\ [][ProjectNext]_vars

\* Drone positions a flight has reached: the two sides of the
\* half-spacing boundary in x, a point in the next cell in x and y and on
\* the boundary in z, and a point from which the camera is inside the cube
\* at the origin.
DronePositions ==
    {<<74999, 0, -30000>>, <<75000, 0, -30000>>,
     <<160000, -200000, -75000>>, <<15000, -10000, 30000>>}

\* The first grid cell past those an i32 numbers.
FarCell == 2 ^ (FarWordBits - 1)

\* Drone positions at the end of the cells an i32 can number: in the
\* first cell past the last one in x, half a spacing before it in y, and
\* past the first one in x and z.
FarPositions ==
    {<<FarCell * CUBE_SPACING, 0, -30000>>,
     <<0, FarCell * CUBE_SPACING - (CUBE_SPACING \div 2), -30000>>,
     <<-FarCell * CUBE_SPACING - (CUBE_SPACING \div 2), 0,
       -FarCell * CUBE_SPACING - CUBE_SPACING>>}

\* A renderer whose drone has flown and stopped, the camera following;
\* or the renderer as built.
InitFlown ==
    /\ driven = "PhysicsWorld"
    /\ web = WebPhysicsWorld_new
    /\ \/ PixelInitOf(RenderWordBits) /\ PhysicsInit /\ RendererInit
       \/ /\ \/ /\ PixelInitOf(RenderWordBits)
                /\ physics \in {[PhysicsWorld_new EXCEPT
                                    !.drone.translation = p] :
                                   p \in DronePositions}
             \/ /\ PixelInitOf(FarWordBits)
                /\ physics \in {[PhysicsWorld_new EXCEPT
                                    !.drone.translation = p] :
                                   p \in FarPositions}
          /\ camera = camera_update(Camera_new, physics.drone.translation)
          /\ pbefore = physics
          /\ cbefore = camera
          /\ thrust_force = Zero3
          /\ angular_force = Zero3
          /\ pcall = [op |-> "update", dt |-> DT_FRAME,
                      events |-> <<Ev("Stop")>>]
          /\ rcall = pcall
          /\ made = <<"update">>
          /\ used_dt = physics.dt
          /\ quiet = FALSE
          /\ ncalls = 0
          /\ steps = <<>>
          /\ drawcalls = <<>>

RenderNext == HandleKeyDown \/ Frame \/ Render

\* A front end that updates on key presses, updates and renders on
\* frames, and renders on its own.
SpecRender == InitFlown /\ [][RenderNext]_vars

AimNext == CameraUpdate \/ Render

\* A client that renders and also points the camera itself, through the
\* public camera field of the Renderer.
SpecAim == InitFlown /\ [][AimNext]_vars

HeldNext == UpdateHeld

\* A client that updates with the events of several keys held at once.
SpecHeld == InitRenderer /\ [][HeldNext]_vars

\* Any client of a PixelBuffer.
SpecPixel == InitPixel /\ [][PixelNext]_vars

\* A client that draws lines between pixels of the buffer.
SpecLine == InitPixel /\ [][LineNext]_vars

\* Any client of a physics world.
SpecPhysics == InitPhysics /\ [][PhysicsNext]_vars

---------------------------------------------------------------------------
(* PixelBuffer: the claims *)

\* The pixel at (x, y) of pixel array px of a buffer of width w.
PixelAt(px, w, x, y) == px[y * w + x + 1]

CallInBounds == call.x < before.width /\ call.y < before.height

\* C1: after any sequence of PixelBuffer operations with arbitrary u32
\* arguments, pixels.len() == width * height and no operation has
\* panicked.
C1_LenAndNoPanic ==
    /\ Len(buffer.pixels) = buffer.width * buffer.height
    /\ status # "panicked"

\* C2: set_pixel(x, y, c) with x < width and y < height returns true, and
\* get_pixel(x, y) on the buffer it leaves returns Some(c).
C2_SetThenGet ==
    (call.op = "set_pixel" /\ CallInBounds) =>
        /\ ret = TRUE
        /\ get_pixel(buffer, call.x, call.y) = call.color

C2_Witness ==
    /\ call.op = "set_pixel" /\ CallInBounds
    /\ call.x > 0 /\ call.y > 0
    /\ PixelAt(before.pixels, before.width, call.x, call.y)
          \notin {Black, call.color}

\* C3: with x >= width or y >= height, set_pixel returns false, get_pixel
\* returns None, and the call leaves the whole buffer as it was.
C3_OutOfBounds ==
    (call.op \in {"set_pixel", "get_pixel"} /\ ~CallInBounds) =>
        /\ ret = IF call.op = "set_pixel" THEN FALSE ELSE None
        /\ buffer = before

C3_Witness ==
    /\ call.op = "set_pixel" /\ call.x = before.width /\ call.y = 0
    /\ \E i \in 1..Len(before.pixels) : before.pixels[i] # Black
    /\ ret = FALSE

\* C4: an in-bounds set_pixel(x, y, c) sets the element at row-major index
\* y * width + x to c and changes nothing else: every other pixel, the
\* length of the array, width and height are as before.
C4_SetPixelFrame ==
    (call.op = "set_pixel" /\ CallInBounds) =>
        /\ buffer.width = before.width
        /\ buffer.height = before.height
        /\ Len(buffer.pixels) = Len(before.pixels)
        /\ \A i \in 1..Len(before.pixels) :
              buffer.pixels[i] =
                  IF i = call.y * before.width + call.x + 1
                  THEN call.color ELSE before.pixels[i]

C4_Witness ==
    /\ call.op = "set_pixel" /\ CallInBounds
    /\ call.x = before.width - 1 /\ call.y = 1
    /\ buffer # before
    /\ \E i \in 1..Len(before.pixels) : before.pixels[i] # Black

\* The points of the last call's trace, as a set.
TracePoints == {trace[i] : i \in 1..Len(trace)}

\* C5: draw_line(x0, y0, x1, y1, c) with both end points in bounds makes
\* max(|x1 - x0|, |y1 - y0|) + 1 set_pixel calls, on that many different
\* pixels, all in bounds: an 8-connected path from (x0, y0) to (x1, y1)
\* inclusive.  Afterwards the pixels of the path are c and every other
\* pixel is as before.
C5_LinePath ==
    (call.op = "draw_line"
       /\ <<call.x0, call.y0>> \in InBounds
       /\ <<call.x1, call.y1>> \in InBounds) =>
        LET n == Max(Abs(call.x1 - call.x0), Abs(call.y1 - call.y0)) + 1
        IN  /\ status = "running"
            /\ Len(trace) = n
            /\ Cardinality(TracePoints) = n
            /\ TracePoints \subseteq InBounds
            /\ trace[1] = <<call.x0, call.y0>>
            /\ trace[n] = <<call.x1, call.y1>>
            /\ \A i \in 1..(n - 1) :
                  /\ Abs(trace[i + 1][1] - trace[i][1]) <= 1
                  /\ Abs(trace[i + 1][2] - trace[i][2]) <= 1
            /\ \A x \in InX, y \in InY :
                  PixelAt(buffer.pixels, buffer.width, x, y) =
                      IF <<x, y>> \in TracePoints THEN call.color
                      ELSE PixelAt(before.pixels, before.width, x, y)

\* A line that is neither horizontal, vertical nor diagonal, drawn over an
\* earlier line of the other colour.
C5_Witness ==
    /\ call.op = "draw_line"
    /\ Abs(call.x1 - call.x0) = WIDTH - 1
    /\ Abs(call.y1 - call.y0) = 1
    /\ Len(trace) = WIDTH
    /\ \E i \in 1..Len(before.pixels) :
          before.pixels[i] \notin {Black, call.color}

\* A zero-length line sets one pixel.
C5_WitnessPoint ==
    /\ call.op = "draw_line"
    /\ call.x0 = call.x1 /\ call.y0 = call.y1
    /\ Len(trace) = 1
    /\ buffer # before

\* C6: draw_rect(x, y, w, h, c) sets to c the pixels (px, py) of the buffer
\* with x <= px < x + w and y <= py < y + h, leaves every other pixel as it
\* was, and does not panic, also when x + w or y + h is beyond the buffer
\* or beyond the u32 range.
C6_RectExact ==
    call.op = "draw_rect" =>
        /\ status = "running"
        /\ \A px \in InX, py \in InY :
              PixelAt(buffer.pixels, buffer.width, px, py) =
                  IF /\ call.x <= px /\ px < call.x + call.width
                     /\ call.y <= py /\ py < call.y + call.height
                  THEN call.color
                  ELSE PixelAt(before.pixels, before.width, px, py)

---------------------------------------------------------------------------
(* The physics worlds: the claims *)

\* C7: reset_drone() puts the drone back at the start pose, position
\* (0, 0, -3) and the orientation it was built with, with zero linear and
\* angular velocity, whatever the calls before it.
C7_ResetToStartPose ==
    pcall.op = "reset_drone" =>
        /\ get_drone_position = START
        /\ get_drone_velocity = Zero3
        /\ AngularVelocity = Zero3
        /\ get_drone_rotation = IDENTITY

\* C8: the time step a step integrates with is max(dt, 1/240 s), for
\* every dt.
C8_DtClamped ==
    pcall.op \in {"step", "step_with_torque"} =>
        used_dt = Max(pcall.dt, DT_MIN)

\* The velocity damping and gravity alone make of the velocity the last
\* call found, over the time step it used.
DampedOnly ==
    IF driven = "PhysicsWorld"
    THEN rapier_damp(VAdd(pbefore.drone.linvel,
                          VMulDiv(pbefore.gravity, used_dt, Hz)), used_dt)
    ELSE web_damp(pbefore.velocity)

\* C9: a force acts in the step it is passed to only: in a step called
\* with zero force the velocity changes by damping (and gravity) alone.
C9_ForceOneTick ==
    (pcall.op = "step" /\ pcall.force = Zero3) =>
        get_drone_velocity = DampedOnly

\* C10: with zero gravity a drone at rest stays at rest: from new(), after
\* any number of steps with zero force and any dt, the drone is at the
\* start position with zero velocity.
C10_RestStaysAtRest ==
    quiet => /\ get_drone_position = START
             /\ get_drone_velocity = Zero3

C10_Witness ==
    /\ quiet
    /\ driven = "PhysicsWorld"
    /\ ncalls = MaxCalls
    /\ pcall.op = "step" /\ pcall.dt = Hz \div 5
    /\ physics.dt = Hz \div 5

\* The driven world as the last call found it.
BeforePosition ==
    IF driven = "PhysicsWorld" THEN pbefore.drone.translation
    ELSE pbefore.position
BeforeVelocity ==
    IF driven = "PhysicsWorld" THEN pbefore.drone.linvel ELSE pbefore.velocity
BeforeRotation ==
    IF driven = "PhysicsWorld" THEN pbefore.drone.rotation
    ELSE pbefore.rotation
BeforeAngularVelocity ==
    IF driven = "PhysicsWorld" THEN pbefore.drone.angvel
    ELSE pbefore.angular_velocity

\* The tenths a stopping call leaves of the velocities.
StopFactor ==
    CASE pcall.op = "stop_drone" -> 0
      [] pcall.op = "gentle_stop" -> 8
      [] pcall.op = "emergency_brake" -> 5

\* C13: stop_drone, gentle_stop and emergency_brake leave 0, 0.8 and 0.5
\* times the linear and the angular velocity they found, and the position
\* and the orientation as they found them.
C13_StopScalesVelocity ==
    pcall.op \in {"stop_drone", "gentle_stop", "emergency_brake"} =>
        /\ get_drone_velocity = VMulDiv(BeforeVelocity, StopFactor, 10)
        /\ AngularVelocity = VMulDiv(BeforeAngularVelocity, StopFactor, 10)
        /\ get_drone_position = BeforePosition
        /\ get_drone_rotation = BeforeRotation

\* A gentle stop of a drone that moves, away from the start.
C13_Witness ==
    /\ pcall.op = "gentle_stop"
    /\ BeforeVelocity # Zero3
    /\ get_drone_velocity # Zero3
    /\ get_drone_position # START

---------------------------------------------------------------------------
(* The Renderer and its camera: the claims *)

\* The square of the length of v.
Speed2(v) == v[1] * v[1] + v[2] * v[2] + v[3] * v[3]

EmptyUpdate == rcall.op = "update" /\ rcall.events = <<>>

CameraUpdated == rcall.op \in {"update", "camera_update"}

\* The drone position that Camera::update was given.
UpdatedWith ==
    IF rcall.op = "update" THEN get_drone_position ELSE rcall.drone_pos

\* What Camera::update does not touch is as the call found it.
LensUnchanged ==
    /\ camera.up = cbefore.up
    /\ camera.fov = cbefore.fov
    /\ camera.aspect = cbefore.aspect
    /\ camera.near = cbefore.near
    /\ camera.far = cbefore.far

\* C15: after Camera::update(p) in third-person mode, called directly or
\* by Renderer::update, target is p, position is p + (-1.5, 1.0, -2.0),
\* and up, fov, aspect, near and far are as before.
C15_CameraFollows ==
    (CameraUpdated /\ camera.mode = "ThirdPerson") =>
        /\ camera.target = UpdatedWith
        /\ camera.position = VAdd(UpdatedWith, OFFSET)
        /\ LensUnchanged

\* An update that moved the drone, and the camera with it.
C15_Witness ==
    /\ rcall.op = "update"
    /\ camera.mode = "ThirdPerson"
    /\ get_drone_position # START
    /\ camera.target # cbefore.target
    /\ cbefore.target # Zero3

\* C16: Camera::update does what the mode set before it says: in
\* third-person mode the camera is at the drone position plus the offset,
\* in first-person mode at the drone position, and in free mode position
\* and target are as the call found them.
C16_ModeDecidesUpdate ==
    CameraUpdated =>
        CASE camera.mode = "ThirdPerson" ->
                camera.position = VAdd(UpdatedWith, OFFSET)
          [] camera.mode = "FirstPerson" ->
                camera.position = UpdatedWith
          [] camera.mode = "Free" ->
                /\ camera.position = cbefore.position
                /\ camera.target = cbefore.target

\* The point of the last world_to_screen call in clip space.
ClipSpace ==
    MatVec(get_view_projection_matrix(camera),
           <<rcall.world_pos[1], rcall.world_pos[2], rcall.world_pos[3],
             LenOne>>)

\* A screen position <<x, y, ...>> in units of 1 / NdcOne of a pixel is
\* outside [0, width) x [0, height).
OffScreen(screen_pos) ==
    \/ screen_pos[1] < 0 \/ screen_pos[1] >= buffer.width * NdcOne
    \/ screen_pos[2] < 0 \/ screen_pos[2] >= buffer.height * NdcOne

CallCorners == cube_corners(rcall.center, CUBE_SIZE)

\* Where world_to_screen puts corner i of that cube.
CornerOnScreen(i) ==
    world_to_screen(CallCorners[i], get_view_projection_matrix(camera),
                    buffer.width, buffer.height)

\* The pixel coordinates render_cube_at makes of a screen position.
AsPixel(screen_pos) ==
    <<f32_as_u32(screen_pos[1]), f32_as_u32(screen_pos[2])>>

\* C18: a cube corner that projects outside [0, width) x [0, height), in
\* particular to a negative x or y, has no pixel of the buffer written for
\* it: the coordinates render_cube_at passes on for it are outside the
\* buffer, where set_pixel discards them.
C18_OffScreenDiscarded ==
    rcall.op = "render_cube_at" =>
        \A i \in 1..8 :
            (CornerOnScreen(i) # None /\ OffScreen(CornerOnScreen(i))) =>
                ~(AsPixel(CornerOnScreen(i)) \in InBounds
                      /\ AsPixel(CornerOnScreen(i)) \in TracePoints)

\* thrust_force and angular_force are the zero vector.
AccumulatorsZero ==
    thrust_force = Zero3 /\ angular_force = Zero3

RECURSIVE TotalThrust(_)
TotalThrust(events) ==
    IF events = <<>> THEN Zero3
    ELSE VAdd(thrust_of(Head(events)), TotalThrust(Tail(events)))

\* The sum of what the events of a list add to angular_force.
RECURSIVE TotalTorque(_)
TotalTorque(events) ==
    IF events = <<>> THEN Zero3
    ELSE VAdd(torque_of(Head(events)), TotalTorque(Tail(events)))

\* C20: an update makes one physics step, whatever its events, and the
\* step gets the dt of the update and the sums of the thrust and of the
\* torque contributions of its events.
C20_OneStepPerUpdate ==
    rcall.op = "update" =>
        /\ Len(steps) = 1
        /\ steps[1].dt = rcall.dt
        /\ steps[1].force = TotalThrust(rcall.events)
        /\ steps[1].torque = TotalTorque(rcall.events)

\* An update with two events of the same thrust, after an update that
\* turned the drone and did not push it.
C20_Witness ==
    /\ rcall = [op |-> "update", dt |-> DT_FRAME,
                events |-> <<Ev("ThrustForward"), Ev("ThrustForward")>>]
    /\ steps[1].force = <<0, 0, 6>>
    /\ pbefore.drone.linvel = Zero3
    /\ pbefore.drone.angvel # Zero3

---------------------------------------------------------------------------
(* Renderer::render: the claims *)

\* The last handler rendered, and the renderer came through it.
Rendered == rcall.op = "render" /\ status = "running"

ViewProj == get_view_projection_matrix(camera)

\* Where world_to_screen puts corner i of the cube at center.
CornerAt(center, i) ==
    world_to_screen(cube_corners(center, CUBE_SIZE)[i], ViewProj,
                    buffer.width, buffer.height)

\* Corner i of the cube at center is not in front of the camera: its w in
\* clip space is zero or negative.
Behind(center, i) ==
    LET p == cube_corners(center, CUBE_SIZE)[i]
    IN  MatVec(ViewProj, <<p[1], p[2], p[3], LenOne>>)[4] <= 0

\* The draw_line call of an edge both corners of which are projected.
EdgeLine(center, edge) ==
    LET a == AsPixel(CornerAt(center, edge[1]))
        b == AsPixel(CornerAt(center, edge[2]))
    IN  LineCall(a[1], a[2], b[1], b[2], White)

\* The draw_line calls of the cube at center, in the order of its edges.
RECURSIVE EdgeLines(_, _)
EdgeLines(center, edges) ==
    IF edges = <<>> THEN <<>>
    ELSE (IF CornerAt(center, Head(edges)[1]) # None
             /\ CornerAt(center, Head(edges)[2]) # None
          THEN <<EdgeLine(center, Head(edges))>> ELSE <<>>)
         \o EdgeLines(center, Tail(edges))

\* Call k of the log is the line of a cube edge.
IsEdgeLine(k) == drawcalls[k].op = "draw_line" /\ drawcalls[k].color = White

\* The lines drawn for the cube that call i of the log starts: the edge
\* lines that follow it, up to the next call of another kind.
LinesAfter(i) ==
    LET last == CHOOSE j \in i..Len(drawcalls) :
                    /\ \A k \in (i + 1)..j : IsEdgeLine(k)
                    /\ j = Len(drawcalls) \/ ~IsEdgeLine(j + 1)
    IN  SubSeq(drawcalls, i + 1, last)

\* The pairs of corners, by index, that differ in one axis.
AxisPairs ==
    LET c == cube_corners(Zero3, CUBE_SIZE)
    IN  {pair \in SUBSET (1..8) :
            \E i, j \in 1..8 :
                /\ pair = {i, j}
                /\ Cardinality({a \in 1..3 : c[i][a] # c[j][a]}) = 1}

\* The cubes the last render has started.
CubesDrawn ==
    {i \in DOMAIN drawcalls : drawcalls[i].op = "render_cube_at"}

\* C22: for every cube a render draws, the lines drawn for it are those of
\* the edges both corners of which world_to_screen projected, one line
\* each from corner to corner; no line is drawn for an edge with a corner
\* that is not in front of the camera; and the twelve edges are the
\* corner pairs that differ in one axis.
C22_EdgesOfProjectedCorners ==
    /\ {{cube_edges[n][1], cube_edges[n][2]} : n \in DOMAIN cube_edges}
           = AxisPairs
    /\ Len(cube_edges) = Cardinality(AxisPairs)
    /\ Rendered =>
          \A i \in CubesDrawn :
              /\ LinesAfter(i) = EdgeLines(drawcalls[i].center, cube_edges)
              /\ Len(LinesAfter(i))
                    = Cardinality(
                          {n \in DOMAIN cube_edges :
                              /\ ~Behind(drawcalls[i].center, cube_edges[n][1])
                              /\ ~Behind(drawcalls[i].center,
                                         cube_edges[n][2])})

\* A render that drew a cube in full, a cube in part, some of its corners
\* being behind the camera, and nothing of a third.
C22_Witness ==
    /\ Rendered
    /\ \E i \in CubesDrawn : Len(LinesAfter(i)) = Len(cube_edges)
    /\ \E i \in CubesDrawn :
          /\ Len(LinesAfter(i)) \in 1..(Len(cube_edges) - 1)
          /\ \E n \in 1..8 : Behind(drawcalls[i].center, n)
    /\ \E i \in CubesDrawn : LinesAfter(i) = <<>>

\* The grid cells within 1 of round(drone_pos / 15) on each axis.
CellsAround(drone_pos) ==
    LET c == [a \in 1..3 |-> round_div(drone_pos[a], CUBE_SPACING)]
    IN  ((c[1] - 1)..(c[1] + 1)) \X ((c[2] - 1)..(c[2] + 1))
            \X ((c[3] - 1)..(c[3] + 1))

\* C23: wherever the drone is, a render renders 27 cubes, those of the grid
\* cells within 1 of round(drone_pos / 15) on each axis, each centred at
\* cell * 15; the cell nearest to the drone on every axis is among them.
C23_GridAroundDrone ==
    rcall.op = "render" =>
        /\ Cardinality(CubesDrawn) = 27
        /\ {drawcalls[i].center : i \in CubesDrawn}
              = {cell_center(cell) :
                    cell \in CellsAround(physics.drone.translation)}
        /\ \E i \in CubesDrawn :
              \A a \in 1..3 :
                  2 * Abs(drawcalls[i].center[a]
                            - physics.drone.translation[a]) <= CUBE_SPACING

\* Where world_to_screen puts the drone for the render that was last.
DroneOnScreen ==
    world_to_screen(physics.drone.translation, ViewProj, buffer.width,
                    buffer.height)

\* The calls of the last render that drew in the colour of the marker.
MarkerCalls ==
    SelectSeq(drawcalls,
              LAMBDA c : c.op \in {"draw_line", "draw_rect"} /\ c.color = Red)

\* The calls that draw the marker around pixel (x, y): the cross and the
\* dot.
MarkerAt(x, y) ==
    <<LineCall(x - DRONE_SIZE, y, x + DRONE_SIZE, y, Red),
      LineCall(x, y - DRONE_SIZE, x, y + DRONE_SIZE, Red),
      [op |-> "draw_rect", x |-> saturating_sub(x, DOT_BACK),
       y |-> saturating_sub(y, DOT_BACK), width |-> DOT_SIZE,
       height |-> DOT_SIZE, color |-> Red]>>

C25_StrictAlternation ==
    [][(made # <<>> /\ made' # <<>>) => made'[1] # made[Len(made)]]_vars

\* C26: after a render, every pixel the render did not write is of the
\* background colour, whatever it was before, and every pixel it wrote is
\* white, of a cube edge, or red, of the marker.
C26_ClearedAndRedrawn ==
    rcall.op = "render" =>
        \A x \in 0..(buffer.width - 1), y \in 0..(buffer.height - 1) :
            IF <<x, y>> \in TracePoints
            THEN PixelAt(buffer.pixels, buffer.width, x, y) \in {White, Red}
            ELSE PixelAt(buffer.pixels, buffer.width, x, y) = Background

\* A render that found black where it left background, and that drew
\* edges and the marker.
C26_Witness ==
    /\ Rendered
    /\ \E i \in DOMAIN buffer.pixels :
          before.pixels[i] = Black /\ buffer.pixels[i] = Background
    /\ \E i \in DOMAIN buffer.pixels : buffer.pixels[i] = White
    /\ \E i \in DOMAIN buffer.pixels : buffer.pixels[i] = Red

\* What decides how the loop of draw_line goes on from the head of an
\* iteration: x, y and err (dx, dy, sx, sy and the end point do not
\* change).
loop_state(st) == <<st.x, st.y, st.err>>

\* One iteration of the loop, seen from an earlier iteration that began in
\* the state mark: out becomes "cycle" when the loop is back in that state,
\* from which it goes the same way again and never breaks.
marked_step(st, k, checks, mark) ==
    CHOOSE r \in {IF n.out = "loop" /\ loop_state(n) = mark
                  THEN [n EXCEPT !.out = "cycle"] ELSE n :
                     n \in {line_step(st, k, checks)}} : TRUE

\* At most count iterations of the loop, seen from the state mark: the
\* first half of them, then the rest.
RECURSIVE marked_loop(_, _, _, _, _)
marked_loop(st, k, checks, mark, count) ==
    IF st.out # "loop" \/ count = 0 THEN st
    ELSE IF count = 1 THEN marked_step(st, k, checks, mark)
    ELSE CHOOSE r \in
             {marked_loop(half, k, checks, mark, count - (count \div 2)) :
                 half \in {marked_loop(st, k, checks, mark, count \div 2)}} :
             TRUE

\* The loop of draw_line followed until it breaks, panics or comes back to
\* a state it was in: count iterations seen from the state they begin in,
\* then twice as many seen from the state these end in, and so on.  The
\* loop has finitely many states, so one of the three happens.
RECURSIVE line_run(_, _, _, _)
line_run(st, k, checks, count) ==
    IF st.out # "loop" THEN st
    ELSE CHOOSE r \in
             {line_run(n, k, checks, 2 * count) :
                 n \in {marked_loop(st, k, checks, loop_state(st), count)}} :
             TRUE

\* How draw_line(x0, y0, x1, y1, color) on the buffer self ends, however
\* long its loop runs: "done" (the loop broke at the end point), "panic",
\* or "cycle" (the loop never breaks).
line_end(self, x0, y0, x1, y1, color, checks) ==
    LET s == line_setup(x0, y0, x1, y1)
        k == [x1 |-> x1, y1 |-> y1, dx |-> s.dx, dy |-> s.dy,
              sx |-> s.sx, sy |-> s.sy, color |-> color]
        st == [self |-> self, x |-> AsI32(x0), y |-> AsI32(y0),
               err |-> s.err, trace |-> <<>>, out |-> "loop"]
    IN  IF checks /\ s.ovf THEN "panic" ELSE line_run(st, k, checks, 1).out

\* C27: draw_line terminates for every pair of u32 end points, those cast
\* from far projections included: its loop reaches (x1, y1) and breaks.
C27_LineReachesEnd ==
    call.op = "draw_line" =>
        line_end(before, call.x0, call.y0, call.x1, call.y1, call.color,
                 overflow_checks) = "done"

\* The pixel in the middle of the buffer: (160, 120) of the 320 x 240 one.
Centre == <<buffer.width \div 2, buffer.height \div 2>>

\* The last call on the Renderer was a render, and an update was made
\* before it.
RenderAfterUpdate == rcall.op = "render" /\ pcall.op = "update"

\* C28: once an update was made, the drone is projected to the centre of
\* the buffer, where the bounds test of render_drone passes, so that every
\* render after an update returns having drawn the red cross and the dot
\* around the centre.
C28_MarkerAtCentre ==
    RenderAfterUpdate =>
        /\ status = "running"
        /\ DroneOnScreen # None
        /\ AsPixel(DroneOnScreen) = Centre
        /\ MarkerCalls = MarkerAt(Centre[1], Centre[2])

\* C29: the Renderer as built already looks at the drone: the target of its
\* camera is where the drone starts and its position is elsewhere, so that
\* a render made before any update projects the drone and draws its marker.
C29_BuiltCameraSeesDrone ==
    (Rendered /\ pcall.op = "new") =>
        /\ camera.target = physics.drone.translation
        /\ camera.position # physics.drone.translation
        /\ DroneOnScreen # None
        /\ MarkerCalls # <<>>

\* The accumulators as the f32 they are.  An f32 is counted in units of
\* 2^-F32_FRACTION, the spacing of the f32 around 0.05: every value the
\* accumulators take is a whole number of them.
F32_MANTISSA == 24
F32_FRACTION == 28
F32One == 2 ^ F32_FRACTION

\* The spacing of the f32 at magnitude a.
RECURSIVE f32_ulp(_)
f32_ulp(a) == IF a < 2 ^ F32_MANTISSA THEN 1 ELSE 2 * f32_ulp(a \div 2)

\* The f32 nearest to v, ties to the even significand.
f32_round(v) ==
    LET a == IF v < 0 THEN -v ELSE v
        u == f32_ulp(a)
        q == a \div u
        r == a % u
        m == IF 2 * r > u \/ (2 * r = u /\ q % 2 = 1) THEN q + 1 ELSE q
    IN  IF v < 0 THEN -(m * u) ELSE m * u

\* a + b of two f32.
f32_add(a, b) == f32_round(a + b)

\* The f32 literal nearest to num / den (den even, num / den not a tie).
f32_of(num, den) ==
    LET u == f32_ulp((num * F32One) \div den)
    IN  ((num * (F32One \div u) + den \div 2) \div den) * u

\* The f32 literals of a vector of tenths (den = 10) or hundredths.
f32_vec(v, den) ==
    [i \in 1..3 |-> IF v[i] < 0 THEN -f32_of(-v[i], den)
                    ELSE f32_of(v[i], den)]

\* `+=` and `-=` of the match of Renderer::update, in f32, on the
\* accumulators acc = [thrust_force, angular_force].
accumulate_f32(acc, event) ==
    [thrust_force |->
         [i \in 1..3 |-> f32_add(acc.thrust_force[i],
                                 f32_vec(thrust_of(event), 10)[i])],
     angular_force |->
         [i \in 1..3 |-> f32_add(acc.angular_force[i],
                                 f32_vec(torque_of(event), 100)[i])]]

\* The force and the torque that Renderer::update passes to the physics
\* step for the events, in f32, from accumulators acc.
RECURSIVE net_f32(_, _)
net_f32(acc, input_events) ==
    IF input_events = <<>> THEN acc
    ELSE net_f32(accumulate_f32(acc, Head(input_events)),
                 Tail(input_events))

\* The orders the events of a list can come in.
Orders(events) ==
    {[i \in 1..Len(events) |-> events[p[i]]] :
        p \in Permutations(1..Len(events))}

\* The Renderer the last update was called on.
UpdatedFrom ==
    [physics |-> pbefore, camera |-> cbefore, thrust_force |-> Zero3,
     angular_force |-> Zero3]

\* One of the events is the opposite of the other.
Opposite(e1, e2) ==
    /\ thrust_of(e1) # Zero3
    /\ thrust_of(e1) = [i \in 1..3 |-> -thrust_of(e2)[i]]

\* C30: what an update without CameraMode events leaves does not depend on
\* the order of its events: the events in any other order give the same
\* drone, camera and accumulators, from the same net force and torque; and
\* two opposite thrust events alone give no net force.
C30_OrderOfEvents ==
    (rcall.op = "update"
        /\ \A i \in 1..Len(rcall.events) :
              rcall.events[i].tag # "CameraMode") =>
        /\ \A events \in Orders(rcall.events) :
              /\ \E r \in {renderer_update(UpdatedFrom, rcall.dt, events)} :
                    /\ r.physics = physics
                    /\ r.camera = camera
                    /\ r.thrust_force = thrust_force
                    /\ r.angular_force = angular_force
                    /\ r.steps = steps
              /\ net_f32(UpdatedFrom, events)
                    = net_f32(UpdatedFrom, rcall.events)
        /\ (Len(rcall.events) = 2
               /\ Opposite(rcall.events[1], rcall.events[2])) =>
              /\ steps[1].force = Zero3
              /\ net_f32(UpdatedFrom, rcall.events).thrust_force = Zero3

=============================================================================
